---- MODULE Spec2Model ----
(***************************************************************************)
(* A model of cnap_lib/analysis.py: the Graph class (construction from an  *)
(* adjacency matrix, adjacency lists, induced subgraphs, the longest-chain *)
(* traversal, bond enumeration) and the CNA pipeline built on it           *)
(* (common-neighbour subgraphs, signatures, CNAPs, grouping).              *)
(*                                                                         *)
(* Conventions.  Node indices are the code's 0-based indices.  A numpy     *)
(* matrix is a record [shape |-> <<rows, cols>>, a |-> f] with f a         *)
(* function on (0..rows-1) \X (0..cols-1).  A Python list or a 1-D array   *)
(* that the code iterates over is a sequence; a list the code addresses by *)
(* node index is a function on 0..N-1.  The outcome of a call is a record  *)
(* [kind |-> k, val |-> v]: kind is the name of the exception raised, or   *)
(* the kind of value returned.                                             *)
(***************************************************************************)
EXTENDS Integers, Sequences, FiniteSets, TLC

\* Largest number of nodes of a caller-supplied square matrix.
MaxN == 4
\* Largest number of nodes, and longest index list, of SpecSub.
MaxSubN == 3
MaxSubLen == 2
\* Largest number of nodes, and longest index list, of SpecFrame.
MaxFrameN == 3
MaxFrameLen == 1
\* Largest number of nodes of SpecPerm.
MaxPermN == 4
\* Largest number of rows or columns of a rectangular matrix (SpecCtor).
MaxDim == 2
\* Longest list of CNAPs handed to group_CNAPs directly.
MaxCnaps == 3

VARIABLES
    pc,         \* "caller": the matrix exists, no Graph yet; "graph": a Graph
                \* exists; "returned": a call on the Graph has returned or raised
    adj_mat,    \* the array object the caller built; self.adj_mat is the SAME
                \* object (analysis.py:20 stores the reference, no copy)
    supplied,   \* the value adj_mat had when the caller handed it over
    adj_list,   \* self.adj_list
    positions,  \* self.positions
    op,         \* the last call made on the Graph: [name, arg]
    result      \* its outcome: [kind, val]

vars == <<pc, adj_mat, supplied, adj_list, positions, op, result>>

----------------------------------------------------------------------------
(* Generic helpers: ordering of lists.                                      *)

Max(a, b) == IF a >= b THEN a ELSE b

Range(s) == {s[k] : k \in 1..Len(s)}

\* Tuples of equal length, compared as numpy's sort of rows compares them.
LexLess(s, t) ==
    \E k \in 1..Len(s) :
        /\ s[k] < t[k]
        /\ \A m \in 1..(k-1) : s[m] = t[m]

RECURSIVE AscendingInts(_)
AscendingInts(S) ==
    IF S = {} THEN <<>>
    ELSE LET m == CHOOSE x \in S : \A y \in S : x <= y
         IN  <<m>> \o AscendingInts(S \ {m})

RECURSIVE AscendingRows(_)
AscendingRows(S) ==
    IF S = {} THEN <<>>
    ELSE LET m == CHOOSE x \in S : \A y \in S \ {x} : LexLess(x, y)
         IN  <<m>> \o AscendingRows(S \ {m})

None == [kind |-> "None", val |-> <<>>]
Raise(e) == [kind |-> e, val |-> <<>>]
Return(k, v) == [kind |-> k, val |-> v]
IsError(r) == r.kind \in {"IndexError", "TypeError"}

----------------------------------------------------------------------------
(* numpy primitives used by the code.                                       *)

Rows(m) == m.shape[1]
Cols(m) == m.shape[2]

\* np.fill_diagonal(m, 0) on a 2-D array: every entry (i, i) becomes 0.
fill_diagonal(m) ==
    [m EXCEPT !.a = [p \in DOMAIN m.a |-> IF p[1] = p[2] THEN 0 ELSE m.a[p]]]

\* np.where(row)[0] for one row of (m == 1): ascending column indices.
where_row(m, i) == AscendingInts({j \in 0..(Cols(m)-1) : m.a[<<i, j>>] = 1})

\* np.argwhere(m == 1): the set of index pairs holding 1 (row-major order is
\* lost by the np.unique that follows, which sorts).
argwhere(m) == {p \in DOMAIN m.a : m.a[p] = 1}

\* np.sort(pairs, axis=1) on one pair.
sort_pair(p) == IF p[1] <= p[2] THEN p ELSE <<p[2], p[1]>>

\* np.intersect1d(a, b): sorted unique common values.
intersect1d(a, b) == AscendingInts(Range(a) \cap Range(b))

----------------------------------------------------------------------------
(* class Graph                                                              *)

\* Graph.make_adj_list
make_adj_list(m) == [i \in 0..(Rows(m)-1) |-> where_row(m, i)]

\* number_of_nodes read from shape[1].
number_of_nodes_columns(m) == Cols(m)

\* Graph.number_of_nodes
number_of_nodes(m) == Rows(m)

\* unique_bonds without the np.sort of each pair.
unique_bonds_unsorted(m) == AscendingRows(argwhere(m))

\* Graph.unique_bonds: argwhere, sort each pair, unique rows.
unique_bonds(m) == AscendingRows({sort_pair(p) : p \in argwhere(m)})

\* Graph.number_of_unique_bonds
number_of_unique_bonds(m) == Len(unique_bonds(m))

\* The default node_positions=[] of Graph.__init__: a Python list.
NoPositions == [kind |-> "list", val |-> <<>>]
\* An array with one row per node; row i is the point (i, 0, 0).
PositionArray(n) == [kind |-> "ndarray", val |-> [i \in 0..(n-1) |-> <<i, 0, 0>>]]

\* The Graph object Graph.__init__ builds from a matrix and positions.
GraphOf(m, pos, fill_diag) ==
    LET mm == IF fill_diag THEN fill_diagonal(m) ELSE m
    IN  [adj_mat |-> mm, adj_list |-> make_adj_list(mm), positions |-> pos]

\* np.array(nodes).dtype: an empty Python list becomes a float64 array, a
\* non-empty list of ints or an integer array stays integer.
dtype_of(nodes, from_list) ==
    IF from_list /\ Len(nodes) = 0 THEN "float64" ELSE "int64"

\* An index test that refuses negative indices.
index_ok_nonnegative(v, n) == 0 <= v /\ v < n

\* numpy's reading of an index v along an axis of length n: v in [-n, n) is
\* accepted, a negative v counting from the end.
index_ok(v, n) == -n <= v /\ v < n
wrap_index(v, n) == IF v < 0 THEN v + n ELSE v

\* self.adj_mat[np.ix_(nodes, nodes)]: a new array (advanced indexing copies).
ix_select(m, nodes) ==
    LET k == Len(nodes)
    IN  [shape |-> <<k, k>>,
         a |-> [p \in (0..(k-1)) \X (0..(k-1)) |->
                  m.a[<<wrap_index(nodes[p[1] + 1], Rows(m)),
                        wrap_index(nodes[p[2] + 1], Cols(m))>>]]]

\* `self.positions is not []`: an identity test against a list created by the
\* expression itself, which no existing object is.
positions_is_not_empty_literal(pos) == TRUE

\* self.positions[nodes]
positions_getitem(pos, nodes, dtype) ==
    IF pos.kind = "list"
    THEN Raise("TypeError")      \* a list cannot be indexed by an ndarray
    ELSE IF dtype # "int64"
    THEN Raise("IndexError")     \* arrays used as indices must be of integer type
    ELSE Return("ndarray",
                [k \in 0..(Len(nodes)-1) |->
                    pos.val[wrap_index(nodes[k + 1], Cardinality(DOMAIN pos.val))]])

\* self.adj_mat after make_subgraph(nodes) had sub_adj_mat been a view of
\* self.adj_mat: the fill_diagonal of line 70 would clear the parent's entries.
adj_mat_after_subgraph_view(m, nodes) ==
    IF \E k \in 1..Len(nodes) : ~(-Rows(m) <= nodes[k] /\ nodes[k] < Rows(m))
    THEN m
    ELSE [m EXCEPT !.a = [p \in DOMAIN m.a |->
             IF p[1] = p[2] /\ \E k \in 1..Len(nodes) :
                                  p[1] = (nodes[k] + Rows(m)) % Rows(m)
             THEN 0 ELSE m.a[p]]]

\* self.adj_mat after make_subgraph(nodes): sub_adj_mat is a copy, so the
\* np.fill_diagonal(sub_adj_mat, 0) of line 70 does not reach self.adj_mat.
adj_mat_after_subgraph(m, nodes) == m

\* Graph.make_subgraph(nodes); from_list says the caller passed a Python list
\* rather than an integer array.
make_subgraph(g, nodes, from_list) ==
    LET m == g.adj_mat
        dtype == dtype_of(nodes, from_list)
    IN  IF \E k \in 1..Len(nodes) :
              ~index_ok(nodes[k], Rows(m)) \/ ~index_ok(nodes[k], Cols(m))
        THEN Raise("IndexError")
        ELSE LET sub_adj_mat == fill_diagonal(ix_select(m, nodes))
             IN  IF positions_is_not_empty_literal(g.positions)
                 THEN LET sub_pos == positions_getitem(g.positions, nodes, dtype)
                      IN  IF IsError(sub_pos) THEN sub_pos
                          ELSE Return("Graph", GraphOf(sub_adj_mat, sub_pos, TRUE))
                 ELSE Return("Graph", GraphOf(sub_adj_mat, NoPositions, TRUE))

\* The for loop without the ring-closure test of line 103.
RECURSIVE visit_neighbours_no_ring(_, _, _, _, _)
visit_neighbours_no_ring(ws, l, starting_node, discovered, st) ==
    IF ws = <<>> THEN st
    ELSE LET w == Head(ws)
             stack1 == IF w \notin Range(discovered)
                       THEN Append(st[2], <<w, l + 1>>) ELSE st[2]
         IN  visit_neighbours_no_ring(Tail(ws), l, starting_node, discovered,
                                      <<st[1], stack1>>)

\* The for loop pushing a neighbour at the depth of the node it was found from.
RECURSIVE visit_neighbours_same_depth(_, _, _, _, _)
visit_neighbours_same_depth(ws, l, starting_node, discovered, st) ==
    IF ws = <<>> THEN st
    ELSE LET w == Head(ws)
             max1 == IF l >= 2 /\ w = starting_node
                     THEN Max(st[1], l + 1) ELSE st[1]
             stack1 == IF w \notin Range(discovered)
                       THEN Append(st[2], <<w, l>>) ELSE st[2]
         IN  visit_neighbours_same_depth(Tail(ws), l, starting_node, discovered,
                                         <<max1, stack1>>)

\* The for loop of longest_chain_from_node over the neighbours ws of a node
\* popped at depth l; st is <<max_lenght, stack>>.
RECURSIVE visit_neighbours(_, _, _, _, _)
visit_neighbours(ws, l, starting_node, discovered, st) ==
    IF ws = <<>> THEN st
    ELSE LET w == Head(ws)
             max1 == IF l >= 2 /\ w = starting_node
                     THEN Max(st[1], l + 1) ELSE st[1]
             stack1 == IF w \notin Range(discovered)
                       THEN Append(st[2], <<w, l + 1>>) ELSE st[2]
         IN  visit_neighbours(Tail(ws), l, starting_node, discovered,
                              <<max1, stack1>>)

\* The while loop of longest_chain_from_node.
RECURSIVE chain_loop(_, _, _, _, _)
chain_loop(adj, starting_node, max_lenght, discovered, stack) ==
    IF Len(stack) = 0 THEN max_lenght
    ELSE LET v == stack[Len(stack)][1]
             l == stack[Len(stack)][2]
             rest == SubSeq(stack, 1, Len(stack) - 1)
         IN  IF v \notin Range(discovered)
             THEN LET disc1 == Append(discovered, v)
                      st == visit_neighbours(adj[v], l, starting_node, disc1,
                                             <<Max(max_lenght, l), rest>>)
                  IN  chain_loop(adj, starting_node, st[1], disc1, st[2])
             ELSE chain_loop(adj, starting_node, max_lenght, discovered, rest)

\* Graph.longest_chain_from_node(starting_node)
longest_chain_from_node(adj, starting_node) ==
    chain_loop(adj, starting_node, 0, <<>>, << <<starting_node, 0>> >>)

\* Graph.longest_chain
RECURSIVE longest_chain_upto(_, _)
longest_chain_upto(adj, n) ==
    IF n = 0 THEN 0
    ELSE Max(longest_chain_from_node(adj, n - 1), longest_chain_upto(adj, n - 1))

longest_chain(adj) == longest_chain_upto(adj, Cardinality(DOMAIN adj))

----------------------------------------------------------------------------
(* The CNA pipeline.                                                        *)

\* get_cns_subgraphs: one make_subgraph outcome per bond, in bond order.
get_cns_subgraphs(g) ==
    LET bonds == unique_bonds(g.adj_mat)
    IN  [k \in 1..Len(bonds) |->
            make_subgraph(g, intersect1d(g.adj_list[bonds[k][1]],
                                         g.adj_list[bonds[k][2]]), FALSE)]

\* The triple compute_signatures appends for one subgraph.
signature_of(subgraph) ==
    <<number_of_nodes(subgraph.adj_mat),
      number_of_unique_bonds(subgraph.adj_mat),
      longest_chain(subgraph.adj_list)>>

\* compute_signatures: the first make_subgraph that raises ends the call.
compute_signatures(g) ==
    LET subgraphs == get_cns_subgraphs(g)
        failed == {k \in 1..Len(subgraphs) : IsError(subgraphs[k])}
    IN  IF failed # {}
        THEN subgraphs[CHOOSE k \in failed : \A j \in failed : k <= j]
        ELSE Return("signatures",
                    [k \in 1..Len(subgraphs) |-> signature_of(subgraphs[k].val)])

\* Number of entries of a list equal to x.
count_of(list, x) == Cardinality({k \in 1..Len(list) : list[k] = x})

\* get_occurrences: np.unique(signatures, axis=0, return_counts=True), zipped.
get_occurrences(signatures) ==
    LET unique_sigs == AscendingRows(Range(signatures))
    IN  [k \in 1..Len(unique_sigs) |->
            <<unique_sigs[k], count_of(signatures, unique_sigs[k])>>]

\* The list sigs_per_node[n] after the loop of get_CNAPs has run over the
\* first k (signature, bond) pairs.
RECURSIVE sigs_of_node(_, _, _, _)
sigs_of_node(n, sigs, bonds, k) ==
    IF k = 0 THEN <<>>
    ELSE LET before == sigs_of_node(n, sigs, bonds, k - 1)
             at1 == IF bonds[k][1] = n THEN Append(before, sigs[k]) ELSE before
         IN  IF bonds[k][2] = n THEN Append(at1, sigs[k]) ELSE at1

\* get_CNAPs: a list indexed by node.
get_CNAPs(g) ==
    LET sigs == compute_signatures(g)
        bonds == unique_bonds(g.adj_mat)
    IN  IF IsError(sigs) THEN sigs
        ELSE Return("CNAPs",
                    [n \in 0..(number_of_nodes(g.adj_mat) - 1) |->
                        get_occurrences(sigs_of_node(n, sigs.val, bonds, Len(bonds)))])

\* Length of a list indexed from 0.
ListLen(l) == Cardinality(DOMAIN l)

\* unique_CNAPs after the loop has run over CNAPs[0..k-1].
RECURSIVE unique_upto(_, _)
unique_upto(CNAPs, k) ==
    IF k = 0 THEN <<>>
    ELSE LET out == unique_upto(CNAPs, k - 1)
         IN  IF CNAPs[k - 1] \notin Range(out)
             THEN Append(out, CNAPs[k - 1]) ELSE out

\* unique_CNAPs without the `not in out` test.
unique_CNAPs_keep_all(CNAPs) == [k \in 1..ListLen(CNAPs) |-> CNAPs[k - 1]]

unique_CNAPs(CNAPs) == unique_upto(CNAPs, ListLen(CNAPs))

\* The comprehension [i for i, comp in enumerate(CNAPs) if comp == key].
matching(CNAPs, key) ==
    AscendingInts({i \in DOMAIN CNAPs : CNAPs[i] = key})

\* group_CNAPs
group_CNAPs(CNAPs) ==
    LET keys == unique_CNAPs(CNAPs)
    IN  <<keys, [k \in 1..Len(keys) |-> matching(CNAPs, keys[k])]>>

----------------------------------------------------------------------------
(* Inputs.                                                                  *)

Pairs(n) == {p \in (0..(n-1)) \X (0..(n-1)) : p[1] < p[2]}

\* The symmetric n x n 0/1 matrix with bonds E and d on the diagonal.
SymMatrix(n, E, d) ==
    [shape |-> <<n, n>>,
     a |-> [p \in (0..(n-1)) \X (0..(n-1)) |->
              IF p[1] = p[2] THEN d
              ELSE IF p \in E \/ <<p[2], p[1]>> \in E THEN 1 ELSE 0]]

\* The caller holds a symmetric matrix of at most maxn nodes, whose diagonal
\* is filled with one value of diags, and has not built a Graph yet.
InitWith(maxn, diags) ==
    /\ pc = "caller"
    /\ \E n \in 0..maxn : \E E \in SUBSET Pairs(n) : \E d \in diags :
          adj_mat = SymMatrix(n, E, d)
    /\ supplied = adj_mat
    /\ adj_list = <<>>
    /\ positions = NoPositions
    /\ op = [name |-> "none", arg |-> <<>>]
    /\ result = None

Init == InitWith(MaxN, {0, 1})

\* Graph.__init__(adj_mat, node_positions, fill_diag)
Construct(with_positions, fill_diag) ==
    /\ pc = "caller"
    /\ pc' = "graph"
    /\ adj_mat' = IF fill_diag THEN fill_diagonal(adj_mat) ELSE adj_mat
    /\ adj_list' = make_adj_list(adj_mat')
    /\ positions' = IF with_positions THEN PositionArray(Rows(adj_mat))
                    ELSE NoPositions
    /\ op' = [name |-> "__init__", arg |-> <<with_positions, fill_diag>>]
    /\ UNCHANGED <<supplied, result>>

\* The Graph object as the methods see it.
Self == [adj_mat |-> adj_mat, adj_list |-> adj_list, positions |-> positions]

N == number_of_nodes(adj_mat)

\* A call on the Graph: it leaves every field of the Graph to the callee.
Call(name, arg, outcome) ==
    /\ pc = "graph"
    /\ pc' = "returned"
    /\ op' = [name |-> name, arg |-> arg]
    /\ result' = outcome
    /\ UNCHANGED <<adj_mat, supplied, adj_list, positions>>

\* Index lists a caller may hand to make_subgraph: in range, negative, and
\* out of range on both sides.
IndexLists(maxlen) ==
    UNION {[1..k -> (-(N + 1))..N] : k \in 0..maxlen}

\* The caller passes a Python list, or an integer array; the two differ only
\* when empty.
ListOrArray(nodes) == IF nodes = <<>> THEN BOOLEAN ELSE {TRUE}

MakeSubgraph(nodes, from_list) ==
    /\ pc = "graph"
    /\ pc' = "returned"
    /\ op' = [name |-> "make_subgraph", arg |-> <<nodes, from_list>>]
    /\ result' = make_subgraph(Self, nodes, from_list)
    /\ adj_mat' = adj_mat_after_subgraph(adj_mat, nodes)
    /\ UNCHANGED <<supplied, adj_list, positions>>

LongestChainFromNode(starting_node) ==
    Call("longest_chain_from_node", <<starting_node>>,
         Return("int", longest_chain_from_node(adj_list, starting_node)))

LongestChain ==
    Call("longest_chain", <<>>, Return("int", longest_chain(adj_list)))

UniqueBonds ==
    Call("unique_bonds", <<>>, Return("bonds", unique_bonds(adj_mat)))

NumberOfUniqueBonds ==
    Call("number_of_unique_bonds", <<>>, Return("int", number_of_unique_bonds(adj_mat)))

NumberOfNodes ==
    Call("number_of_nodes", <<>>, Return("int", number_of_nodes(adj_mat)))

ComputeSignatures ==
    Call("compute_signatures", <<>>, compute_signatures(Self))

GetCNAPs ==
    Call("get_CNAPs", <<>>, get_CNAPs(Self))

\* group_CNAPs applied to a list of CNAPs the caller holds.
GroupCNAPs ==
    /\ pc = "returned"
    /\ result.kind = "CNAPs"
    /\ op' = [name |-> "group_CNAPs", arg |-> result.val]
    /\ result' = Return("groups", group_CNAPs(result.val))
    /\ UNCHANGED <<pc, adj_mat, supplied, adj_list, positions>>

\* The caller drops the outcome and is free to make another call.
CallReturns ==
    /\ pc = "returned"
    /\ pc' = "graph"
    /\ op' = [name |-> "none", arg |-> <<>>]
    /\ result' = None
    /\ UNCHANGED <<adj_mat, supplied, adj_list, positions>>

Next ==
    \/ \E wp \in BOOLEAN, fd \in BOOLEAN : Construct(wp, fd)
    \/ \E v \in 0..(N - 1) : LongestChainFromNode(v)
    \/ LongestChain
    \/ UniqueBonds
    \/ NumberOfUniqueBonds
    \/ NumberOfNodes
    \/ ComputeSignatures
    \/ GetCNAPs
    \/ GroupCNAPs
    \/ CallReturns

Spec == Init /\ [][Next]_vars

----------------------------------------------------------------------------
(* SpecSub: make_subgraph called with index lists of the caller's choosing. *)

InitSub == InitWith(MaxSubN, {0})

\* The matrices of InitSub have a zero diagonal, on which fill_diag has no
\* effect: the Graph is built with the default.
NextSub ==
    \/ \E wp \in BOOLEAN : Construct(wp, TRUE)
    \/ /\ pc = "graph"
       /\ \E nodes \in IndexLists(MaxSubLen) : \E fl \in ListOrArray(nodes) :
             MakeSubgraph(nodes, fl)
    \/ CallReturns

SpecSub == InitSub /\ [][NextSub]_vars

----------------------------------------------------------------------------
(* SpecFrame: what the constructor and the calls that build subgraphs do to *)
(* the caller's matrix, diagonals of ones included.                         *)

InitFrame == InitWith(MaxFrameN, {0, 1})

NextFrame ==
    \/ \E wp \in BOOLEAN, fd \in BOOLEAN : Construct(wp, fd)
    \/ \E nodes \in IndexLists(MaxFrameLen) : \E fl \in ListOrArray(nodes) :
          MakeSubgraph(nodes, fl)
    \/ ComputeSignatures
    \/ GetCNAPs
    \/ CallReturns

SpecFrame == InitFrame /\ [][NextFrame]_vars

----------------------------------------------------------------------------
(* SpecPerm: a caller that builds subgraphs from reordered index lists and  *)
(* reads a property of each.                                                *)

\* Lists of distinct node indices, each in [0, N).
DistinctLists ==
    UNION {{f \in [1..k -> 0..(N - 1)] : \A i, j \in 1..k : f[i] = f[j] => i = j} :
           k \in 0..N}

\* make_subgraph(nodes).number_of_unique_bonds for two lists, one after the
\* other; an exception ends the caller's run.
PermutedBondCounts(nodes1, nodes2) ==
    Call("permuted_bond_counts", <<nodes1, nodes2>>,
         LET sub1 == make_subgraph(Self, nodes1, TRUE)
             sub2 == make_subgraph(Self, nodes2, TRUE)
         IN  IF IsError(sub1) THEN sub1
             ELSE IF IsError(sub2) THEN sub2
             ELSE Return("ints", <<number_of_unique_bonds(sub1.val.adj_mat),
                                   number_of_unique_bonds(sub2.val.adj_mat)>>))

\* make_subgraph(nodes).longest_chain, then self.longest_chain.
PermutedLongestChain(nodes) ==
    Call("permuted_longest_chain", <<nodes>>,
         LET sub == make_subgraph(Self, nodes, TRUE)
         IN  IF IsError(sub) THEN sub
             ELSE Return("ints", <<longest_chain(sub.val.adj_list),
                                   longest_chain(adj_list)>>))

InitPerm == InitWith(MaxPermN, {0})

\* The matrices of InitPerm have a zero diagonal: the Graph is built with the
\* default fill_diag.
NextPerm ==
    \/ \E wp \in BOOLEAN : Construct(wp, TRUE)
    \/ /\ pc = "graph"
       /\ \E nodes1 \in DistinctLists :
             \E nodes2 \in {l \in DistinctLists : Range(l) = Range(nodes1)} :
                 PermutedBondCounts(nodes1, nodes2)
    \/ /\ pc = "graph"
       /\ \E nodes \in {l \in DistinctLists : Len(l) = N} :
             PermutedLongestChain(nodes)
    \/ CallReturns

SpecPerm == InitPerm /\ [][NextPerm]_vars

----------------------------------------------------------------------------
(* SpecCtor: Graph.__init__ on rectangular 0/1 matrices of any shape.       *)

RectMatrices(maxdim) ==
    UNION {{[shape |-> <<r, c>>, a |-> f] :
               f \in [(0..(r-1)) \X (0..(c-1)) -> {0, 1}]} :
           r \in 0..maxdim, c \in 0..maxdim}

InitCtor ==
    /\ pc = "caller"
    /\ adj_mat \in RectMatrices(MaxDim)
    /\ supplied = adj_mat
    /\ adj_list = <<>>
    /\ positions = NoPositions
    /\ op = [name |-> "none", arg |-> <<>>]
    /\ result = None

NextCtor ==
    \/ \E wp \in BOOLEAN, fd \in BOOLEAN : Construct(wp, fd)
    \/ NumberOfNodes
    \/ CallReturns

SpecCtor == InitCtor /\ [][NextCtor]_vars

----------------------------------------------------------------------------
(* SpecGroup: group_CNAPs on lists of CNAPs the caller made up.             *)

CnapUniverse ==
    { <<>>,
      << << <<0, 0, 0>>, 1 >> >>,
      << << <<0, 0, 0>>, 2 >> >>,
      << << <<0, 0, 0>>, 1 >>, << <<1, 0, 0>>, 1 >> >> }

CnapLists == UNION {[0..(k-1) -> CnapUniverse] : k \in 0..MaxCnaps}

InitGroup ==
    /\ pc = "returned"
    /\ adj_mat = SymMatrix(0, {}, 0)
    /\ supplied = adj_mat
    /\ adj_list = <<>>
    /\ positions = NoPositions
    /\ op = [name |-> "none", arg |-> <<>>]
    /\ \E l \in CnapLists : result = Return("CNAPs", l)

SpecGroup == InitGroup /\ [][GroupCNAPs]_vars

----------------------------------------------------------------------------
(* Properties.                                                              *)

\* The Graph's matrix is square, 0/1, symmetric, with a zero diagonal.
SymmetricZeroDiagonal(m) ==
    /\ Rows(m) = Cols(m)
    /\ \A p \in DOMAIN m.a :
          /\ m.a[p] \in {0, 1}
          /\ m.a[p] = m.a[<<p[2], p[1]>>]
          /\ (p[1] = p[2] => m.a[p] = 0)

\* {(i, j) : i < j and relation[i][j] = 1}
BondSet(m) == {p \in DOMAIN m.a : p[1] < p[2] /\ m.a[p] = 1}

NoDuplicates(s) == \A k, j \in 1..Len(s) : s[k] = s[j] => k = j

\* C1: for a Graph on a symmetric 0/1 matrix with zero diagonal, unique_bonds
\* lists exactly the pairs (i, j), i < j, with relation[i][j] = 1, each once,
\* and number_of_unique_bonds is the number of those pairs.
C1_UniqueBondsExact ==
    (pc = "returned" /\ SymmetricZeroDiagonal(adj_mat)) =>
        /\ op.name = "unique_bonds" =>
              /\ Range(result.val) = BondSet(adj_mat)
              /\ NoDuplicates(result.val)
              /\ Len(result.val) = Cardinality(BondSet(adj_mat))
        /\ op.name = "number_of_unique_bonds" =>
              result.val = Cardinality(BondSet(adj_mat))

C1_Witness ==
    /\ pc = "returned"
    /\ op.name = "unique_bonds"
    /\ SymmetricZeroDiagonal(adj_mat)
    /\ N = 4
    /\ Len(result.val) = 5

\* C2: group_CNAPs returns (unique_list, groups) with groups[k] exactly the
\* indices whose CNAP equals unique_list[k]; every index is in exactly one
\* group and the group sizes sum to the number of CNAPs.
RECURSIVE SumLen(_, _)
SumLen(groups, k) == IF k = 0 THEN 0 ELSE Len(groups[k]) + SumLen(groups, k - 1)

C2_GroupsPartition ==
    op.name = "group_CNAPs" =>
        LET CNAPs == op.arg
            keys == result.val[1]
            groups == result.val[2]
        IN  /\ Len(keys) = Len(groups)
            /\ \A k \in 1..Len(keys) :
                  /\ Range(groups[k]) = {i \in DOMAIN CNAPs : CNAPs[i] = keys[k]}
                  /\ NoDuplicates(groups[k])
            /\ \A i \in DOMAIN CNAPs :
                  Cardinality({k \in 1..Len(groups) : i \in Range(groups[k])}) = 1
            /\ SumLen(groups, Len(groups)) = ListLen(CNAPs)

C2_Witness ==
    /\ op.name = "group_CNAPs"
    /\ ListLen(op.arg) = 3
    /\ Len(result.val[1]) = 2
    /\ op.arg[0] = op.arg[2]
    /\ op.arg[0] # op.arg[1]

\* The triangle 0-1, 1-2, 0-2.
IsTriangle(m) ==
    /\ SymmetricZeroDiagonal(m)
    /\ Rows(m) = 3
    /\ BondSet(m) = {<<0, 1>>, <<1, 2>>, <<0, 2>>}

\* C10: on the triangle, longest_chain_from_node(0) returns 3.
C10_TriangleIsThree ==
    (IsTriangle(adj_mat) /\ op.name = "longest_chain_from_node" /\ op.arg = <<0>>)
        => result.val = 3

C10_Witness ==
    /\ IsTriangle(adj_mat)
    /\ op.name = "longest_chain_from_node"
    /\ op.arg = <<0>>
    /\ result.val = 3

\* Reference notions, stated on sets rather than computed as the code does.
Neighbours(m, i) == {j \in 0..(Cols(m) - 1) : m.a[<<i, j>>] = 1}

CommonNeighbours(m, bond) == Neighbours(m, bond[1]) \cap Neighbours(m, bond[2])

BondsAmong(m, S) == {p \in BondSet(m) : p[1] \in S /\ p[2] \in S}

\* The graph induced on the nodes listed in seq, node k being seq[k+1].
InducedMatrix(m, seq) ==
    [shape |-> <<Len(seq), Len(seq)>>,
     a |-> [p \in (0..(Len(seq) - 1)) \X (0..(Len(seq) - 1)) |->
              IF p[1] = p[2] THEN 0 ELSE m.a[<<seq[p[1] + 1], seq[p[2] + 1]>>]]]

ExpectedSignature(m, bond) ==
    LET S == CommonNeighbours(m, bond)
    IN  <<Cardinality(S),
          Cardinality(BondsAmong(m, S)),
          longest_chain(make_adj_list(InducedMatrix(m, AscendingInts(S))))>>

IncidentBonds(m, v) == {b \in BondSet(m) : v = b[1] \/ v = b[2]}

\* c lists, in ascending order of the triple, each signature carried by a bond
\* at v together with the number of bonds at v that carry it.
IsExpectedCNAP(m, v, c) ==
    /\ {c[k][1] : k \in 1..Len(c)} =
          {ExpectedSignature(m, b) : b \in IncidentBonds(m, v)}
    /\ \A k \in 1..(Len(c) - 1) : LexLess(c[k][1], c[k + 1][1])
    /\ \A k \in 1..Len(c) :
          c[k][2] = Cardinality({b \in IncidentBonds(m, v) :
                                    ExpectedSignature(m, b) = c[k][1]})

SignaturesAsClaimed ==
    /\ result.kind = "signatures"
    /\ Len(result.val) = Len(unique_bonds(adj_mat))
    /\ \A k \in 1..Len(result.val) :
          result.val[k] = ExpectedSignature(adj_mat, unique_bonds(adj_mat)[k])

CNAPsAsClaimed ==
    /\ result.kind = "CNAPs"
    /\ DOMAIN result.val = 0..(N - 1)
    /\ \A v \in 0..(N - 1) : IsExpectedCNAP(adj_mat, v, result.val[v])

\* C3: for every graph and node v, get_CNAPs(graph)[v] lists the (signature,
\* count) pairs of the bonds incident to v, in ascending order of (n, b, l),
\* count being the number of incident bonds with that signature.
C3_CNAPsOfEveryGraph ==
    (pc = "returned" /\ op.name = "get_CNAPs" /\ SymmetricZeroDiagonal(adj_mat))
        => CNAPsAsClaimed

\* The same, for the graphs built with an array of positions.
CNAPsOfPositionedGraphs ==
    (pc = "returned" /\ op.name = "get_CNAPs" /\ SymmetricZeroDiagonal(adj_mat)
        /\ positions.kind = "ndarray")
        => CNAPsAsClaimed

\* C4: for every graph, compute_signatures returns one triple per bond, in the
\* order of unique_bonds: (common neighbours, bonds among them, longest_chain
\* of the subgraph induced on them).
C4_SignaturesOfEveryGraph ==
    (pc = "returned" /\ op.name = "compute_signatures"
        /\ SymmetricZeroDiagonal(adj_mat))
        => SignaturesAsClaimed

\* The same, for the graphs built with an array of positions.
SignaturesOfPositionedGraphs ==
    (pc = "returned" /\ op.name = "compute_signatures"
        /\ SymmetricZeroDiagonal(adj_mat) /\ positions.kind = "ndarray")
        => SignaturesAsClaimed

\* The fully connected graph on 4 nodes.
IsK4(m) ==
    /\ SymmetricZeroDiagonal(m)
    /\ Rows(m) = 4
    /\ BondSet(m) = Pairs(4)

K4AsClaimed ==
    /\ op.name = "compute_signatures" =>
          /\ result.kind = "signatures"
          /\ Len(result.val) = 6
          /\ \A k \in 1..Len(result.val) : result.val[k] = <<2, 1, 1>>
    /\ op.name = "get_CNAPs" =>
          /\ result.kind = "CNAPs"
          /\ DOMAIN result.val = 0..3
          /\ \A v \in 0..3 : result.val[v] = result.val[0]
    /\ op.name = "group_CNAPs" =>
          /\ Len(result.val[2]) = 1
          /\ result.val[2][1] = <<0, 1, 2, 3>>

\* C5: on the fully connected 4-node graph every bond has signature (2, 1, 1),
\* all 4 nodes have the same CNAP, and group_CNAPs returns one group holding
\* 0, 1, 2, 3.
C5_K4Pipeline ==
    (pc = "returned" /\ IsK4(adj_mat)) => K4AsClaimed

\* The same, for the fully connected graph built with an array of positions.
K4PipelineWhenPositioned ==
    (pc = "returned" /\ IsK4(adj_mat) /\ positions.kind = "ndarray") => K4AsClaimed

\* C6 as stated: no Graph is produced from a matrix that is not square.
C6_NonSquareFails ==
    pc # "caller" => Rows(supplied) = Cols(supplied)

\* C6, amended: from a two-dimensional matrix that is not square a Graph is
\* produced; it has one node per row, and the adjacency list of row i holds
\* the columns j # i with matrix[i][j] = 1.
C6_NonSquareBuildsGraph ==
    (pc # "caller" /\ Rows(supplied) # Cols(supplied)) =>
        /\ N = Rows(supplied)
        /\ DOMAIN adj_list = 0..(Rows(supplied) - 1)
        /\ \A i \in 0..(Rows(supplied) - 1) : \A j \in 0..(Cols(supplied) - 1) :
              i # j => (j \in Range(adj_list[i]) <=> supplied.a[<<i, j>>] = 1)

C6_Witness ==
    /\ pc = "graph"
    /\ op.name = "__init__"
    /\ supplied.shape = <<1, 2>>
    /\ adj_list = [i \in 0..0 |-> <<1>>]

\* C7 as stated, reading "fails" as any failure: a list with a value outside
\* [0, N) never yields a Graph.
C7_OutsideZeroToNFails ==
    (pc = "returned" /\ op.name = "make_subgraph") =>
        (result.kind = "Graph" =>
            \A k \in 1..Len(op.arg[1]) : 0 <= op.arg[1][k] /\ op.arg[1][k] < N)

InNumpyRange(nodes) == \A k \in 1..Len(nodes) : -N <= nodes[k] /\ nodes[k] < N

\* C7, amended: make_subgraph fails with an index-range error whenever a value
\* lies outside [-N, N) and returns a Graph only when all values are in
\* [-N, N); a value v in [-N, 0) is accepted and names node v + N: on a graph
\* holding an array of positions a non-empty list of values in [-N, N) yields
\* the Graph induced on the nodes so named.
C7_IndexRange ==
    (pc = "returned" /\ op.name = "make_subgraph") =>
        LET nodes == op.arg[1]
            node(k) == IF nodes[k + 1] < 0 THEN nodes[k + 1] + N ELSE nodes[k + 1]
        IN  /\ ~InNumpyRange(nodes) => result.kind = "IndexError"
            /\ result.kind = "Graph" => InNumpyRange(nodes)
            /\ (InNumpyRange(nodes) /\ nodes # <<>> /\ positions.kind = "ndarray") =>
                  /\ result.kind = "Graph"
                  /\ result.val.adj_mat.shape = <<Len(nodes), Len(nodes)>>
                  /\ \A k, j \in 0..(Len(nodes) - 1) :
                        result.val.adj_mat.a[<<k, j>>] =
                            IF k = j THEN 0 ELSE adj_mat.a[<<node(k), node(j)>>]

C7_Witness ==
    /\ pc = "returned"
    /\ op.name = "make_subgraph"
    /\ N = 3
    /\ op.arg[1] = <<-1, 0>>
    /\ result.kind = "Graph"
    /\ result.val.adj_list[0] = <<1>>

\* C8: for every list of indices in [0, N), the empty list included,
\* make_subgraph returns a Graph whose node k is indices[k], k and m adjacent
\* iff indices[k] and indices[m] are adjacent in the parent, whether the
\* parent was built with positions (re-indexed the same way) or without.
C8_InducedSubgraph ==
    (pc = "returned" /\ op.name = "make_subgraph"
        /\ \A k \in 1..Len(op.arg[1]) : 0 <= op.arg[1][k] /\ op.arg[1][k] < N) =>
        LET nodes == op.arg[1]
        IN  /\ result.kind = "Graph"
            /\ result.val.adj_mat.shape = <<Len(nodes), Len(nodes)>>
            /\ \A k, j \in 0..(Len(nodes) - 1) :
                  k # j => (j \in Range(result.val.adj_list[k])
                              <=> nodes[j + 1] \in Range(adj_list[nodes[k + 1]]))
            /\ positions.kind = "ndarray" =>
                  \A k \in 0..(Len(nodes) - 1) :
                      result.val.positions.val[k] = positions.val[nodes[k + 1]]

\* The same, for a non-empty list and a parent holding an array of positions.
InducedSubgraphWhenPositioned ==
    (pc = "returned" /\ op.name = "make_subgraph" /\ op.arg[1] # <<>>
        /\ positions.kind = "ndarray"
        /\ \A k \in 1..Len(op.arg[1]) : 0 <= op.arg[1][k] /\ op.arg[1][k] < N) =>
        LET nodes == op.arg[1]
        IN  /\ result.kind = "Graph"
            /\ \A k, j \in 0..(Len(nodes) - 1) :
                  k # j => (j \in Range(result.val.adj_list[k])
                              <=> nodes[j + 1] \in Range(adj_list[nodes[k + 1]]))
            /\ \A k \in 0..(Len(nodes) - 1) :
                  result.val.positions.val[k] = positions.val[nodes[k + 1]]

\* C9 as stated: the caller-supplied matrix is never changed.
C9_SuppliedMatrixUnchanged == adj_mat = supplied

\* C9, amended: constructing a Graph leaves every off-diagonal entry of the
\* caller-supplied matrix unchanged and, with fill_diag set (the default),
\* overwrites its diagonal with zeros in place; every call made on the Graph
\* afterwards (make_subgraph, compute_signatures, get_CNAPs and the others)
\* leaves the matrix, the adjacency list and the positions unchanged.
C9_OnlyConstructionTouchesDiagonal ==
    [][ /\ pc = "caller" =>
              /\ adj_mat'.shape = adj_mat.shape
              /\ \A p \in DOMAIN adj_mat.a :
                    adj_mat'.a[p] = IF p[1] = p[2] /\ op'.arg[2] THEN 0
                                    ELSE adj_mat.a[p]
        /\ pc # "caller" =>
              /\ adj_mat' = adj_mat
              /\ adj_list' = adj_list
              /\ positions' = positions ]_vars

C9_Witness ==
    /\ pc = "returned"
    /\ op.name \in {"make_subgraph", "compute_signatures", "get_CNAPs"}
    /\ ~IsError(result)
    /\ adj_mat # supplied
    /\ BondSet(adj_mat) # {}

\* The nodes reachable from the set seen, whose newest members are frontier.
RECURSIVE ReachFrom(_, _, _)
ReachFrom(m, frontier, seen) ==
    LET next == UNION {Neighbours(m, v) : v \in frontier} \ seen
    IN  IF next = {} THEN seen ELSE ReachFrom(m, next, seen \cup next)

Component(m, v) == ReachFrom(m, {v}, {v})

\* A graph without cycles: bonds = nodes - connected components.
IsForest(m) ==
    /\ SymmetricZeroDiagonal(m)
    /\ Cardinality(BondSet(m)) =
          Rows(m) - Cardinality({Component(m, v) : v \in 0..(Rows(m) - 1)})

\* The largest hop distance from the nodes at distance d (frontier) onwards.
RECURSIVE FarthestFrom(_, _, _, _)
FarthestFrom(m, frontier, seen, d) ==
    LET next == UNION {Neighbours(m, v) : v \in frontier} \ seen
    IN  IF next = {} THEN d ELSE FarthestFrom(m, next, seen \cup next, d + 1)

Eccentricity(m, v) == FarthestFrom(m, {v}, {v}, 0)

\* The linear chain 0-1-2-3.
IsChain4(m) ==
    /\ SymmetricZeroDiagonal(m)
    /\ Rows(m) = 4
    /\ BondSet(m) = {<<0, 1>>, <<1, 2>>, <<2, 3>>}

\* C12: in a graph without cycles longest_chain_from_node(start) returns the
\* largest hop distance from start to a node reachable from it: 0 for a node
\* without bonds, 2 for node 1 of the chain 0-1-2-3.
C12_ForestEccentricity ==
    (pc = "returned" /\ op.name = "longest_chain_from_node" /\ IsForest(adj_mat)) =>
        /\ result.kind = "int"
        /\ result.val = Eccentricity(adj_mat, op.arg[1])
        /\ Neighbours(adj_mat, op.arg[1]) = {} => result.val = 0
        /\ (IsChain4(adj_mat) /\ op.arg[1] = 1) => result.val = 2

C12_Witness ==
    /\ pc = "returned"
    /\ op.name = "longest_chain_from_node"
    /\ IsChain4(adj_mat)
    /\ op.arg = <<1>>
    /\ result.val = 2

RECURSIVE SumCounts(_, _)
SumCounts(c, k) == IF k = 0 THEN 0 ELSE c[k][2] + SumCounts(c, k - 1)

DegreesAsClaimed ==
    /\ result.kind = "CNAPs"
    /\ \A v \in 0..(N - 1) :
          /\ SumCounts(result.val[v], Len(result.val[v])) =
                Cardinality(Neighbours(adj_mat, v))
          /\ Neighbours(adj_mat, v) = {} => result.val[v] = <<>>

\* C14: for every symmetric zero-diagonal graph and node v the counts of
\* get_CNAPs(graph)[v] sum to the number of neighbours of v; a node without
\* neighbours has the empty CNAP.
C14_CountsSumToDegree ==
    (pc = "returned" /\ op.name = "get_CNAPs" /\ SymmetricZeroDiagonal(adj_mat))
        => DegreesAsClaimed

\* The same, for the graphs built with an array of positions.
CountsSumToDegreeWhenPositioned ==
    (pc = "returned" /\ op.name = "get_CNAPs" /\ SymmetricZeroDiagonal(adj_mat)
        /\ positions.kind = "ndarray")
        => DegreesAsClaimed

\* C11: for every graph and every two index lists that are permutations of
\* the same set of distinct in-range indices, the two graphs make_subgraph
\* returns have the same number_of_unique_bonds.
C11_BondCountUnderPermutation ==
    (pc = "returned" /\ op.name = "permuted_bond_counts") =>
        /\ result.kind = "ints"
        /\ result.val[1] = result.val[2]

\* The same, for non-empty lists on a graph built with an array of positions.
BondCountUnderPermutationWhenPositioned ==
    (pc = "returned" /\ op.name = "permuted_bond_counts"
        /\ positions.kind = "ndarray" /\ op.arg[1] # <<>>) =>
        /\ result.kind = "ints"
        /\ result.val[1] = result.val[2]
        /\ result.val[1] = Cardinality(BondsAmong(adj_mat, Range(op.arg[1])))

\* C13, on the graphs built with an array of positions (the others make
\* make_subgraph raise): for every permutation p of all the nodes,
\* make_subgraph(p).longest_chain equals longest_chain.
C13_LongestChainUnderRelabelling ==
    (pc = "returned" /\ op.name = "permuted_longest_chain"
        /\ positions.kind = "ndarray" /\ N > 0) =>
        /\ result.kind = "ints"
        /\ result.val[1] = result.val[2]

\* Up to three nodes the value does not depend on the numbering.
LongestChainUnderRelabellingUpToThree ==
    (pc = "returned" /\ op.name = "permuted_longest_chain"
        /\ positions.kind = "ndarray" /\ N > 0 /\ N <= 3) =>
        /\ result.kind = "ints"
        /\ result.val[1] = result.val[2]
====
